---- MODULE Spec2Model ----
(***************************************************************************)
(* Model of the amoeba Datalog engine (Dune-Z/Seminaive-Datalog).          *)
(*                                                                         *)
(* A run of the engine is a state machine: Context::new classifies and     *)
(* stratifies the program, Runtime::new loads the on-disk store and infers *)
(* types, Runtime::eval walks the idb queue, seeds each predicate with its *)
(* base-case rules, runs one semi-naive loop per recursive rule, prints    *)
(* the queries and writes the store back.                                  *)
(*                                                                         *)
(* Conventions.  Positions are 1-based here: the source's column_i and     *)
(* term index i are position i+1.  A table is a record with its arity, a   *)
(* flag telling whether it carries the UNIQUE constraint, and its rows as  *)
(* a bag (a table without UNIQUE can hold the same row twice).  A compiled *)
(* SQL statement is kept as its parts (select list, FROM relation, JOIN    *)
(* relations, ON / WHERE conjuncts) and executed with the semantics of an  *)
(* inner join.  Iteration orders of HashMap / HashSet, which the source    *)
(* leaves to the hasher, are nondeterministic choices.                     *)
(***************************************************************************)
EXTENDS Bags, FiniteSets, Integers, Sequences, TLC

VARIABLES pc, program, disk, ctx, data_types, database, previous, queue,
          work, output, run, saved

vars == <<pc, program, disk, ctx, data_types, database, previous, queue,
          work, output, run, saved>>

(***************************************************************************)
(* Bounds of the model.                                                    *)
(***************************************************************************)
\* the INTEGER columns of the edb hold the integers 1..NumVals
NumVals == 2
\* an edb table of arity two holds at most MaxEdges rows
MaxEdges == 2

\* the longest term list of an atom
MaxArity == 3

(***************************************************************************)
(* The values of the store (SQLite storage classes INTEGER and TEXT).      *)
(***************************************************************************)
\* an INTEGER value
IntV(i) == [t |-> "int", v |-> i, s |-> ""]
\* a TEXT value
TextV(x) == [t |-> "text", v |-> 0, s |-> x]

\* the symbols the TEXT columns of the edb hold
Symbols == {"a", "b"}

\* the decimal rendering of the integers 1..9
Digits == <<"1", "2", "3", "4", "5", "6", "7", "8", "9">>

IntVals == {IntV(i) : i \in 1..NumVals}
SymVals == {TextV(x) : x \in Symbols}
\* the text form of the integers of the store
NumeralVals == {TextV(Digits[i]) : i \in 1..NumVals}

Vals == IntVals \cup SymVals \cup NumeralVals

\* TEXT affinity: a number is converted into its text form
ToText(value) ==
    IF value.t = "int" /\ value.v \in DOMAIN Digits THEN TextV(Digits[value.v])
    ELSE value

\* NUMERIC / INTEGER affinity: a text that is a well-formed integer literal
\* is converted into that integer, any other text is stored as it is
ToNumeric(value) ==
    IF value.t = "text" /\ \E i \in DOMAIN Digits : Digits[i] = value.s
    THEN IntV(CHOOSE i \in DOMAIN Digits : Digits[i] = value.s)
    ELSE value

\* the column type written by apply_rules: INTEGER and REAL for "int" and
\* "float", TEXT for "sym"
IsNumericType(type) == type \in {"int", "float"}

\* the value a column of the declared type stores for an inserted value
ApplyAffinity(type, value) ==
    IF IsNumericType(type) THEN ToNumeric(value) ELSE ToText(value)

(***************************************************************************)
(* Syntax (ast.rs).                                                        *)
(***************************************************************************)
\* Term::Variable(Undistinguished / Distinguished)
Var(name) == [k |-> "var", n |-> name, v |-> 0]
\* Term::Variable(Variable::Free)
Free == [k |-> "free", n |-> "_", v |-> 0]
\* Term::Constant(Constant::Integer)
IntC(i) == [k |-> "int", n |-> "", v |-> i]
\* Term::Constant(Constant::Symbol)
SymC(name) == [k |-> "sym", n |-> name, v |-> 0]

\* Clause::Atom
Atom(p, ts) == [kind |-> "atom", negation |-> FALSE, predicate |-> p, terms |-> ts]
\* Clause::Atom with the leading "Not"
NotAtom(p, ts) == [kind |-> "atom", negation |-> TRUE, predicate |-> p, terms |-> ts]
\* Clause::Arithmetic, kept as the sequence of its leaves (Arith::get_leaves)
Arith(leaves) == [kind |-> "arith", negation |-> FALSE, predicate |-> "arith", terms |-> leaves]

Rule(io, head, body) == [io |-> io, head |-> head, body |-> body]
Input(p, ts) == Rule("read", Atom(p, ts), << >>)
Output(p, ts) == Rule("write", Atom(p, ts), << >>)
Idb(head, body) == Rule("silent", head, body)

\* Term::is_nontrivial_variable
is_nontrivial_variable(t) == t.k = "var"

IsConstant(t) == t.k \in {"int", "sym"}

\* Clause::to_string: the predicate of an atom, "arith" for an expression
ClauseName(c) == IF c.kind = "atom" THEN c.predicate ELSE "arith"

\* Rule::is_base_case
is_base_case(rule, predicates) ==
    \A i \in 1..Len(rule.body) :
        /\ rule.body[i].kind = "atom"
        /\ rule.body[i].predicate \in predicates

Range(s) == {s[i] : i \in 1..Len(s)}

SelectSeqIdx(s, Test(_)) ==
    LET F[i \in 0..Len(s)] ==
            IF i = 0 THEN << >>
            ELSE IF Test(i) THEN Append(F[i-1], s[i]) ELSE F[i-1]
    IN F[Len(s)]

(***************************************************************************)
(* The programs the model runs.                                            *)
(***************************************************************************)
X == Var("X")
Y == Var("Y")
Z == Var("Z")

EdgeDecl == Input("edge", <<SymC("int"), SymC("int")>>)
MarkDecl == Input("mark", <<SymC("int")>>)

\* reach(X,Y) :- edge(X,Y).  reach(X,Z) :- edge(X,Y), reach(Y,Z).
ProgReach ==
    << EdgeDecl,
       Idb(Atom("reach", <<X, Y>>), <<Atom("edge", <<X, Y>>)>>),
       Idb(Atom("reach", <<X, Z>>), <<Atom("edge", <<X, Y>>), Atom("reach", <<Y, Z>>)>>) >>

\* two recursive rules: the closure rule and the symmetry rule
ProgSym ==
    << EdgeDecl,
       Idb(Atom("conn", <<X, Y>>), <<Atom("edge", <<X, Y>>)>>),
       Idb(Atom("conn", <<X, Z>>), <<Atom("edge", <<X, Y>>), Atom("conn", <<Y, Z>>)>>),
       Idb(Atom("conn", <<X, Y>>), <<Atom("conn", <<Y, X>>)>>) >>

\* non-linear recursion: p(X,Z) :- p(X,Y), p(Y,Z).
ProgNonLinear ==
    << EdgeDecl,
       Idb(Atom("p", <<X, Y>>), <<Atom("edge", <<X, Y>>)>>),
       Idb(Atom("p", <<X, Z>>), <<Atom("p", <<X, Y>>), Atom("p", <<Y, Z>>)>>) >>

\* negation over a derived predicate of a lower stratum:
\* src(X) :- edge(X,_).  sink(Y) :- edge(_,Y), Not src(Y).
ProgNeg ==
    << EdgeDecl,
       Idb(Atom("src", <<X>>), <<Atom("edge", <<X, Free>>)>>),
       Idb(Atom("sink", <<Y>>), <<Atom("edge", <<Free, Y>>), NotAtom("src", <<Y>>)>>) >>

\* self-negation: win(X) :- mark(X), Not win(X).
ProgSelfNeg ==
    << MarkDecl,
       Idb(Atom("win", <<X>>), <<Atom("mark", <<X>>), NotAtom("win", <<X>>)>>) >>

\* negation inside one strongly connected component
ProgMutualNeg ==
    << MarkDecl,
       Idb(Atom("even", <<X>>), <<Atom("mark", <<X>>), NotAtom("odd", <<X>>)>>),
       Idb(Atom("odd", <<X>>), <<Atom("mark", <<X>>), NotAtom("even", <<X>>)>>) >>

\* mutual recursion without negation
ProgMutual ==
    << EdgeDecl,
       Idb(Atom("fwd", <<X, Y>>), <<Atom("edge", <<X, Y>>)>>),
       Idb(Atom("fwd", <<X, Y>>), <<Atom("bwd", <<Y, X>>)>>),
       Idb(Atom("bwd", <<X, Y>>), <<Atom("fwd", <<Y, X>>)>>) >>

\* the same predicate in two body atoms, and a third atom sharing a variable:
\* src(X) :- edge(X,_).  via(X) :- edge(X,Y), edge(Y,Z), src(Y).
ProgVia ==
    << EdgeDecl,
       Idb(Atom("src", <<X>>), <<Atom("edge", <<X, Free>>)>>),
       Idb(Atom("via", <<X>>),
           <<Atom("edge", <<X, Y>>), Atom("edge", <<Y, Z>>), Atom("src", <<Y>>)>>) >>

\* two strata of derived predicates and a query
ProgLevels ==
    << EdgeDecl,
       Idb(Atom("a", <<X>>), <<Atom("edge", <<X, Free>>)>>),
       Idb(Atom("b", <<X>>), <<Atom("a", <<X>>)>>),
       Output("b", <<X>>) >>

\* a self-equality and a constant filter
ProgFilters ==
    << EdgeDecl,
       Idb(Atom("same", <<X>>), <<Atom("edge", <<X, X>>)>>),
       Idb(Atom("from1", <<Y>>), <<Atom("edge", <<IntC(1), Y>>)>>) >>

TagDecl == Input("tag", <<SymC("int"), SymC("sym")>>)
TriDecl == Input("tri", <<SymC("sym"), SymC("sym"), SymC("sym")>>)

\* a predicate with a recursive rule and no base case:
\* far(X,Y) :- edge(X,Z), far(Z,Y).
ProgNoBase ==
    << EdgeDecl,
       Idb(Atom("far", <<X, Y>>), <<Atom("edge", <<X, Z>>), Atom("far", <<Z, Y>>)>>) >>

\* two base-case rules drawing the head variable from columns of different
\* types: item(Y) :- tag(_,Y).  item(X) :- tag(X,_).
ProgTypes ==
    << TagDecl,
       Idb(Atom("item", <<Y>>), <<Atom("tag", <<Free, Y>>)>>),
       Idb(Atom("item", <<X>>), <<Atom("tag", <<X, Free>>)>>) >>

\* two @input rules of one name
ProgDup ==
    << Input("edge", <<SymC("int")>>),
       EdgeDecl,
       Idb(Atom("hop", <<X, Y>>), <<Atom("edge", <<X, Y>>)>>) >>

\* a query whose repeated variable first occurs after position 0:
\* @output tri(X,Y,Y).
ProgQuery ==
    << TriDecl,
       Output("tri", <<X, Y, Y>>) >>

\* a constant in the head of a rule: first(1,X) :- edge(X,_).
ProgConst ==
    << EdgeDecl,
       Idb(Atom("first", <<IntC(1), X>>), <<Atom("edge", <<X, Free>>)>>) >>

\* a ground fact: one(1).
ProgFact ==
    << EdgeDecl,
       Idb(Atom("one", <<IntC(1)>>), << >>) >>

\* the same predicate in two body atoms: path2(X,Z) :- edge(X,Y), edge(Y,Z).
ProgPath2 ==
    << EdgeDecl,
       Idb(Atom("path2", <<X, Z>>), <<Atom("edge", <<X, Y>>), Atom("edge", <<Y, Z>>)>>) >>

\* a body atom that shares no variable with the others:
\* same(X) :- edge(X,X).  lone(X) :- edge(X,_), same(_).
ProgLone ==
    << EdgeDecl,
       Idb(Atom("same", <<X>>), <<Atom("edge", <<X, X>>)>>),
       Idb(Atom("lone", <<X>>), <<Atom("edge", <<X, Free>>), Atom("same", <<Free>>)>>) >>

PairDecl == Input("pair", <<SymC("sym"), SymC("sym")>>)

\* two queries over one predicate: @output pair(X,X).  @output pair(X,Y).
ProgTwoQueries ==
    << PairDecl,
       Output("pair", <<X, X>>),
       Output("pair", <<X, Y>>) >>

\* an arithmetic clause after and before the atom that binds its variable:
\* low(X) :- edge(X,_).  low(Y) :- edge(_,Y), Y < 2.  low(Y) :- Y < 2, edge(_,Y).
ProgArith ==
    << EdgeDecl,
       Idb(Atom("low", <<X>>), <<Atom("edge", <<X, Free>>)>>),
       Idb(Atom("low", <<Y>>), <<Atom("edge", <<Free, Y>>), Arith(<<Y, IntC(2)>>)>>),
       Idb(Atom("low", <<Y>>), <<Arith(<<Y, IntC(2)>>), Atom("edge", <<Free, Y>>)>>) >>

Programs == {ProgReach, ProgSym, ProgNonLinear, ProgNeg, ProgSelfNeg,
             ProgMutualNeg, ProgMutual, ProgVia, ProgLevels, ProgFilters,
             ProgNoBase, ProgTypes, ProgDup, ProgQuery, ProgConst, ProgFact,
             ProgPath2, ProgLone, ProgArith, ProgTwoQueries}

(***************************************************************************)
(* Context::new (context.rs) and Stratum::new (stratify.rs).               *)
(***************************************************************************)
RulesWith(prog, io) == SelectSeq(prog, LAMBDA r : r.io = io)

HeadNames(prog, io) == {r.head.predicate : r \in Range(RulesWith(prog, io))}

\* the first rule inserted under a name stays
FirstRule(prog, io, name) ==
    LET rs == SelectSeq(prog, LAMBDA r : r.io = io /\ r.head.predicate = name)
    IN rs[1]

\* HashMap::insert keeps the last rule inserted under a name
LastRule(prog, io, name) ==
    LET rs == SelectSeq(prog, LAMBDA r : r.io = io /\ r.head.predicate = name)
    IN rs[Len(rs)]

\* context.edbs
Edbs(prog) == [name \in HeadNames(prog, "read") |-> LastRule(prog, "read", name)]
\* context.queries
Queries(prog) == [name \in HeadNames(prog, "write") |-> LastRule(prog, "write", name)]
\* context.idbs: the silent rules of each head, in source order
Idbs(prog) ==
    [name \in HeadNames(prog, "silent") |->
        SelectSeq(prog, LAMBDA r : r.io = "silent" /\ r.head.predicate = name)]

BodyAtoms(rule) == {c \in Range(rule.body) : c.kind = "atom"}

\* the (head, body predicate) pairs collected by Context::new
Dependencies(prog) ==
    UNION {{<<r.head.predicate, a.predicate>> : a \in BodyAtoms(r)} :
              r \in Range(RulesWith(prog, "silent"))}

\* the nodes of the graph: the edbs, and both ends of every edge
GraphNodes(relations, dependencies) ==
    relations \cup {d[1] : d \in dependencies} \cup {d[2] : d \in dependencies}

RECURSIVE ReachableFrom(_, _)
ReachableFrom(S, dependencies) ==
    LET N == S \cup {d[2] : d \in {e \in dependencies : e[1] \in S}}
    IN IF N = S THEN S ELSE ReachableFrom(N, dependencies)

SameComponent(u, w, dependencies) ==
    /\ w \in ReachableFrom({u}, dependencies)
    /\ u \in ReachableFrom({w}, dependencies)

\* Stratum::new: kosaraju_scc returns the components in reverse topological
\* order (a component comes after every component it depends on); which
\* of these orders is left to the hasher.  The result is the levels map.
StratumNew(relations, dependencies) ==
    LET nodes == GraphNodes(relations, dependencies)
        n     == Cardinality(nodes)
    IN {lv \in [nodes -> 0..(n-1)] :
          /\ \A u, w \in nodes :
                (lv[u] = lv[w]) <=> SameComponent(u, w, dependencies)
          /\ \A d \in dependencies :
                ~SameComponent(d[1], d[2], dependencies) => lv[d[2]] < lv[d[1]]
          /\ \A u \in nodes : \A i \in 0..(lv[u]-1) : \E w \in nodes : lv[w] = i}

\* stratum.strata, as the sequence of the components
Strata(levels) ==
    LET k == Cardinality({levels[u] : u \in DOMAIN levels})
    IN [i \in 1..k |-> {u \in DOMAIN levels : levels[u] = i - 1}]

\* check_head: a free variable in the head of an idb rule
FreeVarInHead(rule) == \E t \in Range(rule.head.terms) : t.k = "free"

\* check_atom: a body atom naming neither an edb nor an idb
UndefinedPredicate(prog, rule) ==
    \E a \in BodyAtoms(rule) :
        /\ a.predicate \notin HeadNames(prog, "read")
        /\ a.predicate \notin HeadNames(prog, "silent")

\* Stratum::get_level panics on a name that is not a node of the graph
LevelMissing(levels, name) == name \notin DOMAIN levels

\* check_stratum that lets a negated atom of the head's own level pass
check_stratum_lax(levels, head_level, clauses) ==
    \A c \in Range(clauses) :
        (c.kind = "atom" /\ c.negation) => head_level >= levels[c.predicate]

\* check_stratum: a negated atom whose level is not below the head's
check_stratum(levels, head_level, clauses) ==
    \A c \in Range(clauses) :
        (c.kind = "atom" /\ c.negation) => head_level > levels[c.predicate]

\* every check of Context::new passes
ContextAccepts(prog, levels) ==
    /\ \A name \in HeadNames(prog, "silent") : name \notin HeadNames(prog, "read")
    /\ \A r \in Range(RulesWith(prog, "silent")) :
          ~FreeVarInHead(r) /\ ~UndefinedPredicate(prog, r)
    /\ \A name \in HeadNames(prog, "silent") : ~LevelMissing(levels, name)
    /\ \A r \in Range(RulesWith(prog, "silent")) :
          check_stratum(levels, levels[r.head.predicate], r.body)

RECURSIVE SeqsOf(_)
\* every enumeration of a set
SeqsOf(S) ==
    IF S = {} THEN {<< >>}
    ELSE UNION {{<<x>> \o s : s \in SeqsOf(S \ {x})} : x \in S}

RECURSIVE ConcatStrata(_, _, _)
ConcatStrata(strata, i, edbs) ==
    IF i > Len(strata) THEN {<< >>}
    ELSE {s \o t : s \in SeqsOf(strata[i] \ edbs),
                   t \in ConcatStrata(strata, i + 1, edbs)}

\* Context::ordered_idbs: the strata in order, the edbs filtered out; the
\* order inside one stratum is the HashSet's
ordered_idbs(levels, edbs) == ConcatStrata(Strata(levels), 1, edbs)

(***************************************************************************)
(* Analyzer::type_inference (analysis.rs).                                 *)
(***************************************************************************)
TypeNames == {"int", "float", "sym"}

HeadVarNames(rule) == {t.n : t \in {u \in Range(rule.head.terms) : u.k = "var"}}

\* the body occurrences (clause, position) of the distinguished variables
\* inside atoms: annotate_variable made distinguished every body variable
\* whose name occurs in the head
DistinguishedOccurrences(rule) ==
    {o \in (1..Len(rule.body)) \X (1..MaxArity) :
        /\ rule.body[o[1]].kind = "atom"
        /\ o[2] <= Len(rule.body[o[1]].terms)
        /\ rule.body[o[1]].terms[o[2]].k = "var"
        /\ rule.body[o[1]].terms[o[2]].n \in HeadVarNames(rule)}

Before(o1, o2) == o1[1] < o2[1] \/ (o1[1] = o2[1] /\ o1[2] <= o2[2])

\* types.entry(var).or_insert(type_): the first occurrence in body order
FirstOccurrence(rule, v) ==
    CHOOSE o \in DistinguishedOccurrences(rule) :
        /\ rule.body[o[1]].terms[o[2]].n = v
        /\ \A o2 \in DistinguishedOccurrences(rule) :
              rule.body[o2[1]].terms[o2[2]].n = v => Before(o, o2)

\* the panics of the closure run for one base-case rule
RuleTypesPanics(rule, types) ==
    \/ \E o \in DistinguishedOccurrences(rule) :
          \/ rule.body[o[1]].predicate \notin DOMAIN types
          \/ o[2] > Len(types[rule.body[o[1]].predicate])
    \/ \E t \in Range(rule.head.terms) :
          \/ t.k # "var"
          \/ \A o \in DistinguishedOccurrences(rule) :
                rule.body[o[1]].terms[o[2]].n # t.n

\* types_vec: the type of each head variable, in head order
RuleTypes(rule, types) ==
    [i \in 1..Len(rule.head.terms) |->
        LET o == FirstOccurrence(rule, rule.head.terms[i].n)
        IN types[rule.body[o[1]].predicate][o[2]]]

\* the types declared by the @input rules
EdbTypesPanics(edbs) ==
    \E name \in DOMAIN edbs : \E t \in Range(edbs[name].head.terms) :
        ~(t.k = "sym" /\ t.n \in TypeNames)

EdbTypes(edbs) ==
    [name \in DOMAIN edbs |->
        [i \in 1..Len(edbs[name].head.terms) |-> edbs[name].head.terms[i].n]]

RECURSIVE TypeBaseCases(_, _)
\* base_cases.iter().for_each: each base-case rule overwrites the entry of
\* its head
TypeBaseCases(rules, acc) ==
    IF ~acc.ok \/ rules = << >> THEN acc
    ELSE LET rule == Head(rules)
         IN IF RuleTypesPanics(rule, acc.types)
            THEN [ok |-> FALSE, types |-> acc.types]
            ELSE TypeBaseCases(Tail(rules),
                    [ok |-> TRUE,
                     types |-> (rule.head.predicate :> RuleTypes(rule, acc.types))
                               @@ acc.types])

RECURSIVE TypeIdbs(_, _, _, _)
TypeIdbs(idbs, names, prev, acc) ==
    IF ~acc.ok \/ names = << >> THEN acc
    ELSE LET name == Head(names)
             base_cases == SelectSeq(idbs[name], LAMBDA r : is_base_case(r, prev))
         IN TypeIdbs(idbs, Tail(names), prev \cup {name},
                     TypeBaseCases(base_cases, acc))

\* Analyzer::type_inference; ok = FALSE stands for a panic
type_inference(context) ==
    IF EdbTypesPanics(context.edbs)
    THEN [ok |-> FALSE, types |-> << >>]
    ELSE TypeIdbs(context.idbs, context.queue, DOMAIN context.edbs,
                  [ok |-> TRUE, types |-> EdbTypes(context.edbs)])

(***************************************************************************)
(* VarDict (analysis.rs).                                                  *)
(***************************************************************************)
\* the positions of variable v in a sequence of terms, in order
PositionsOf(terms, v) ==
    SelectSeqIdx([i \in 1..Len(terms) |-> i],
                 LAMBDA i : terms[i].k = "var" /\ terms[i].n = v)

OccursIn(clause, v) == PositionsOf(clause.terms, v) # << >>

\* VarDict::new, head_dict
head_dict(rule) ==
    [v \in HeadVarNames(rule) |-> PositionsOf(rule.head.terms, v)]

BodyVarNames(rule) ==
    UNION {{t.n : t \in {u \in Range(c.terms) : u.k = "var"}} : c \in Range(rule.body)}

\* VarDict::new, the groups of v.  An atom clause always gets its own group;
\* an arithmetic clause gets one only when the entry of v is still empty,
\* that is when no earlier clause holds v.
HasGroup(rule, v, c) ==
    /\ OccursIn(rule.body[c], v)
    /\ rule.body[c].kind = "arith" => \A d \in 1..(c-1) : ~OccursIn(rule.body[d], v)

VarGroups(rule, v) ==
    LET all == [c \in 1..Len(rule.body) |->
                   [is_arith |-> rule.body[c].kind = "arith",
                    clause_index |-> c,
                    term_indexes |-> PositionsOf(rule.body[c].terms, v)]]
    IN SelectSeqIdx(all, LAMBDA c : HasGroup(rule, v, c))

\* VarDict::new, clause_dict
clause_dict(rule) == [v \in BodyVarNames(rule) |-> VarGroups(rule, v)]

\* VarGroup::contain_duplicate
contain_duplicate(group) == Len(group.term_indexes) > 1

\* VarDict::alloc: every (clause, position) of v
alloc(rule, v) ==
    UNION {{<<g.clause_index, t>> : t \in Range(g.term_indexes)} :
              g \in Range(clause_dict(rule)[v])}

(***************************************************************************)
(* Rule compilation (runtime.rs, init_base and iteration).                 *)
(***************************************************************************)
DeltaName(p) == "delta_" \o p
TempName(p) == "temp_" \o p

\* the relation a body clause is compiled to; iteration rewrites the head
\* predicate to its delta table
RelationOf(rule, c, rewrite) ==
    LET name == ClauseName(rule.body[c])
    IN IF rewrite /\ name = rule.head.predicate THEN DeltaName(name) ELSE name

\* "Variable ... is not assigned" (a head term that is no variable) and
\* "Invalid var" (a head variable absent from the body)
CompilePanics(rule) ==
    \E t \in Range(rule.head.terms) :
        ~is_nontrivial_variable(t) \/ t.n \notin BodyVarNames(rule)

\* min_by_key(term_index) over a HashSet: any occurrence of least position
MinOccurrences(rule, v) ==
    {o \in alloc(rule, v) : \A o2 \in alloc(rule, v) : o[2] <= o2[2]}

\* the possible choices of the projection sources, one per head position
SelectSources(rule) ==
    {src \in [1..Len(rule.head.terms) ->
                 (1..Len(rule.body)) \X (1..MaxArity)] :
        \A i \in 1..Len(rule.head.terms) :
            src[i] \in MinOccurrences(rule, rule.head.terms[i].n)}

\* first_predicate is overwritten at every head position: the last one stays
FirstPredicate(rule, src, rewrite) ==
    RelationOf(rule, src[Len(rule.head.terms)][1], rewrite)

SelectList(rule, src, rewrite) ==
    [i \in 1..Len(rule.head.terms) |->
        [rel |-> RelationOf(rule, src[i][1], rewrite), col |-> src[i][2]]]

Eq(r1, c1, r2, c2) == [lrel |-> r1, lcol |-> c1, rrel |-> r2, rcol |-> c2]

\* "push inner where_sql stmts": a variable repeated inside one clause
InnerWhere(rule, rewrite) ==
    UNION {UNION {{Eq(RelationOf(rule, g.clause_index, rewrite), g.term_indexes[1],
                      RelationOf(rule, g.clause_index, rewrite), g.term_indexes[k]) :
                        k \in 2..Len(g.term_indexes)} :
                    g \in Range(clause_dict(rule)[v])} :
              v \in BodyVarNames(rule)}

\* "push constant where_sql stmts"
ConstantWhere(rule, rewrite) ==
    UNION {{[rel |-> RelationOf(rule, c, rewrite), col |-> i,
             val |-> rule.body[c].terms[i]] :
                i \in {j \in 1..Len(rule.body[c].terms) :
                          IsConstant(rule.body[c].terms[j])}} :
              c \in {d \in 1..Len(rule.body) : rule.body[d].kind = "atom"}}

\* "push join_sql stmts": the first group of a variable against each other
\* group of it
JoinStmts(rule, rewrite) ==
    UNION {{Eq(RelationOf(rule, clause_dict(rule)[v][1].clause_index, rewrite),
               clause_dict(rule)[v][1].term_indexes[1],
               RelationOf(rule, clause_dict(rule)[v][k].clause_index, rewrite),
               clause_dict(rule)[v][k].term_indexes[1]) :
                 k \in 2..Len(clause_dict(rule)[v])} :
              v \in BodyVarNames(rule)}

\* the keys of join_sql: the relations, other than first_predicate, that a
\* join statement names
JoinRelations(rule, first, rewrite) ==
    ({s.lrel : s \in JoinStmts(rule, rewrite)} \cup
     {s.rrel : s \in JoinStmts(rule, rewrite)}) \ {first}

\* join_sql that keeps no statement
JoinOnDropped(rule, first, rewrite) == {}

\* the statements kept in some ON list: those naming a relation other than
\* first_predicate
JoinOn(rule, first, rewrite) ==
    {s \in JoinStmts(rule, rewrite) : s.lrel # first \/ s.rrel # first}

\* the SELECT built by init_base (rewrite = FALSE) and iteration (TRUE)
Compile(rule, src, rewrite) ==
    LET first == FirstPredicate(rule, src, rewrite)
    IN [select |-> SelectList(rule, src, rewrite),
        from   |-> first,
        joins  |-> JoinRelations(rule, first, rewrite),
        on     |-> JoinOn(rule, first, rewrite),
        where  |-> InnerWhere(rule, rewrite),
        consts |-> ConstantWhere(rule, rewrite)]

(***************************************************************************)
(* Execution of a compiled statement by the store.                         *)
(***************************************************************************)
\* a table: the declared types of its columns, whether it carries the
\* UNIQUE constraint, and its rows
Table(types, unique, rows) ==
    [arity |-> Len(types), types |-> types, unique |-> unique, rows |-> rows]

Scope(q) == {q.from} \cup q.joins

ColumnRefs(q) ==
    {<<q.select[i].rel, q.select[i].col>> : i \in 1..Len(q.select)}
    \cup {<<s.lrel, s.lcol>> : s \in q.on \cup q.where}
    \cup {<<s.rrel, s.rcol>> : s \in q.on \cup q.where}
    \cup {<<s.rel, s.col>> : s \in q.consts}

\* "no such table" / "no such column": the statement cannot be prepared
QueryFails(db, q) ==
    \/ \E r \in Scope(q) : r \notin DOMAIN db
    \/ \E ref \in ColumnRefs(q) :
          ref[1] \notin Scope(q) \/ ref[2] > db[ref[1]].arity

\* one row of each relation of the statement
RowChoices(db, q) ==
    LET rows == UNION {BagToSet(db[r].rows) : r \in Scope(q)}
    IN {f \in [Scope(q) -> rows] : \A r \in Scope(q) : f[r] \in BagToSet(db[r].rows)}

\* Constant's Display: an integer literal, or a quoted text literal
LiteralValue(term) == IF term.k = "int" THEN IntV(term.v) ELSE TextV(term.n)

\* a value equal to the constant
MatchesConstant(value, term) == value = LiteralValue(term)

\* column = column: when one column is numeric and the other is not,
\* NUMERIC affinity is applied to the value of the other
SqlEquals(a, ta, b, tb) ==
    IF IsNumericType(ta) /\ ~IsNumericType(tb) THEN a = ToNumeric(b)
    ELSE IF IsNumericType(tb) /\ ~IsNumericType(ta) THEN ToNumeric(a) = b
    ELSE a = b

\* column = literal: the affinity of the column is applied to the literal
SqlMatchesConstant(type, value, term) ==
    value = ApplyAffinity(type, LiteralValue(term))

Satisfies(db, q, f) ==
    /\ \A s \in q.on \cup q.where :
          SqlEquals(f[s.lrel][s.lcol], db[s.lrel].types[s.lcol],
                    f[s.rrel][s.rcol], db[s.rrel].types[s.rcol])
    /\ \A s \in q.consts :
          SqlMatchesConstant(db[s.rel].types[s.col], f[s.rel][s.col], s.val)

Project(q, f) == [i \in 1..Len(q.select) |-> f[q.select[i].rel][q.select[i].col]]

RECURSIVE Weight(_, _, _)
\* the number of times a choice of rows occurs in the product
Weight(db, f, rels) ==
    IF rels = {} THEN 1
    ELSE LET r == CHOOSE x \in rels : TRUE
         IN db[r].rows[f[r]] * Weight(db, f, rels \ {r})

RECURSIVE SumWeights(_, _, _)
SumWeights(db, q, fs) ==
    IF fs = {} THEN 0
    ELSE LET f == CHOOSE x \in fs : TRUE
         IN Weight(db, f, Scope(q)) + SumWeights(db, q, fs \ {f})

\* the rows a SELECT returns, with their multiplicities
QueryRows(db, q) ==
    LET sat == {f \in RowChoices(db, q) : Satisfies(db, q, f)}
    IN [t \in {Project(q, f) : f \in sat} |->
           SumWeights(db, q, {f \in sat : Project(q, f) = t})]

\* a row as the columns of the table store it
StoredRow(types, row) == [i \in 1..Len(row) |-> ApplyAffinity(types[i], row[i])]

RECURSIVE Copies(_, _)
\* the number of rows of the bag among the given tuples
Copies(B, S) ==
    IF S = {} THEN 0
    ELSE LET r == CHOOSE x \in S : TRUE IN B[r] + Copies(B, S \ {r})

\* the rows of a bag as the columns of the table store them
Stored(types, B) ==
    [t \in {StoredRow(types, r) : r \in BagToSet(B)} |->
        Copies(B, {r \in BagToSet(B) : StoredRow(types, r) = t})]

\* INSERT OR IGNORE: a row that violates UNIQUE is dropped; a table without
\* the constraint takes every row
InsertOrIgnore(table, rows) ==
    IF table.unique
    THEN [table EXCEPT !.rows =
             SetToBag(BagToSet(table.rows) \cup BagToSet(Stored(table.types, rows)))]
    ELSE [table EXCEPT !.rows = table.rows (+) Stored(table.types, rows)]

\* the set of rows of a relation of the store
Rel(db, name) == BagToSet(db[name].rows)

(***************************************************************************)
(* The on-disk store before the run.                                       *)
(***************************************************************************)
\* the values a column of the declared type holds on disk
ColumnVals(type) == IF IsNumericType(type) THEN IntVals ELSE SymVals

\* the rows over columns of the declared types
RowsOf(types) ==
    {row \in [1..Len(types) -> IntVals \cup SymVals] :
        \A i \in 1..Len(types) : row[i] \in ColumnVals(types[i])}

\* the relations an edb table of the declared column types can hold
Relations(types) ==
    IF Len(types) = 1 THEN SUBSET RowsOf(types)
    ELSE {S \in SUBSET RowsOf(types) : Cardinality(S) <= MaxEdges}

EdbArity(prog, name) == Len(Edbs(prog)[name].head.terms)

\* the column types the @input rule declares
EdbColumns(prog, name) ==
    [i \in 1..EdbArity(prog, name) |-> Edbs(prog)[name].head.terms[i].n]

\* every declared edb table exists with the declared number of columns
Disks(prog) ==
    {[name \in DOMAIN Edbs(prog) |->
         Table(EdbColumns(prog, name), FALSE, SetToBag(content[name]))] :
       content \in {c \in [DOMAIN Edbs(prog) ->
                            UNION {Relations(EdbColumns(prog, n)) : n \in DOMAIN Edbs(prog)}] :
                       \A n \in DOMAIN Edbs(prog) : c[n] \in Relations(EdbColumns(prog, n))}}

NoContext == [edbs |-> << >>, idbs |-> << >>, queries |-> << >>,
              levels |-> << >>, queue |-> << >>]

FirstRun == [n |-> 1, kind |-> "first"]

Init ==
    /\ program \in Programs
    /\ disk \in Disks(program)
    /\ pc = "parse"
    /\ ctx = NoContext
    /\ data_types = << >>
    /\ database = << >>
    /\ previous = {}
    /\ queue = << >>
    /\ work = << >>
    /\ output = << >>
    /\ run = FirstRun
    /\ saved = [disk |-> disk, database |-> << >>]

\* a panic that flushes the working store to the disk
PanicFlushing ==
    /\ pc' = "panic"
    /\ disk' = database
    /\ UNCHANGED <<program, ctx, data_types, database, previous, queue,
                   work, output, run, saved>>

\* a panic ends the process; the working store is discarded with it
Panic ==
    /\ pc' = "panic"
    /\ UNCHANGED <<program, disk, ctx, data_types, database, previous, queue,
                   work, output, run, saved>>

\* a backend error travels up as Err: Runtime::new and eval return it
ReturnErr ==
    /\ pc' = "error"
    /\ UNCHANGED <<program, disk, ctx, data_types, database, previous, queue,
                   work, output, run, saved>>

(***************************************************************************)
(* syntax::parse: Context::new.                                            *)
(***************************************************************************)
ContextNew ==
    /\ pc = "parse"
    /\ \E levels \in StratumNew(HeadNames(program, "read"), Dependencies(program)) :
          IF ContextAccepts(program, levels)
          THEN /\ \E q \in ordered_idbs(levels, HeadNames(program, "read")) :
                     ctx' = [edbs |-> Edbs(program), idbs |-> Idbs(program),
                             queries |-> Queries(program),
                             levels |-> levels, queue |-> q]
               /\ pc' = "new"
               /\ UNCHANGED <<program, disk, data_types, database, previous,
                              queue, work, output, run, saved>>
          ELSE Panic

(***************************************************************************)
(* Runtime::new.                                                           *)
(***************************************************************************)
\* "EDB ... is not present in database" and assert_eq!(arity, actual_arity)
EdbCheckPanics(context, store) ==
    \E name \in DOMAIN context.edbs :
        \/ name \notin DOMAIN store
        \/ store[name].arity # Len(context.edbs[name].head.terms)

\* Connection::open(source_db)?, prepare(..)? and Backup::new(..)? answer
\* Ok or Err as the backend decides (opened)
RuntimeNew ==
    /\ pc = "new"
    /\ \E opened \in BOOLEAN :
          IF ~opened
          THEN ReturnErr
          ELSE IF EdbCheckPanics(ctx, disk) \/ ~type_inference(ctx).ok
               THEN Panic
               ELSE /\ database' = disk
                    /\ data_types' = type_inference(ctx).types
                    /\ previous' = DOMAIN ctx.edbs
                    /\ queue' = ctx.queue
                    /\ pc' = "eval"
                    /\ UNCHANGED <<program, disk, ctx, work, output, run, saved>>

(***************************************************************************)
(* Runtime::eval and Runtime::apply_rules.                                 *)
(***************************************************************************)
WorkItem(rule, base) == [rule |-> rule, base |-> base]

\* apply_rules: the base cases in source order, then the recursive cases in
\* source order
apply_rules(rules, prev) ==
    LET base_cases == SelectSeq(rules, LAMBDA r : is_base_case(r, prev))
        recursive_cases == SelectSeq(rules, LAMBDA r : ~is_base_case(r, prev))
    IN [i \in 1..Len(base_cases) |-> WorkItem(base_cases[i], TRUE)]
       \o [i \in 1..Len(recursive_cases) |-> WorkItem(recursive_cases[i], FALSE)]

\* eval: the next predicate of the queue enters apply_rules
ApplyRules ==
    /\ pc = "eval"
    /\ queue # << >>
    /\ LET rules == ctx.idbs[Head(queue)]
       IN IF \E i \in 1..Len(rules) :
                 Len(rules[i].head.terms) # Len(rules[1].head.terms)
          THEN Panic
          ELSE /\ work' = apply_rules(rules, previous)
               /\ pc' = "rules"
               /\ UNCHANGED <<program, disk, ctx, data_types, database, previous,
                              queue, output, run, saved>>

\* CREATE TABLE IF NOT EXISTS head (column_0 t0, ..., UNIQUE(column_0, ...))
CreateHeadTable(db, types, rule) ==
    IF rule.head.predicate \in DOMAIN db THEN db
    ELSE (rule.head.predicate :>
             Table(SubSeq(types[rule.head.predicate], 1, Len(rule.head.terms)),
                   TRUE, EmptyBag)) @@ db

\* the expect() calls on the type info of the head
TypeInfoPanics(types, rule) ==
    \/ rule.head.predicate \notin DOMAIN types
    \/ Len(types[rule.head.predicate]) < Len(rule.head.terms)

\* the INSERT cannot name the columns column_0.. of its target
TargetFails(db, target, rule) ==
    target \notin DOMAIN db \/ db[target].arity # Len(rule.head.terms)

\* init_base: INSERT OR IGNORE INTO head SELECT ...
init_base(db, rule, src) ==
    [db EXCEPT ![rule.head.predicate] =
        InsertOrIgnore(@, QueryRows(db, Compile(rule, src, FALSE)))]

\* one base-case rule: create the head table, then init_base
InitBase ==
    /\ pc = "rules"
    /\ work # << >>
    /\ Head(work).base
    /\ LET rule == Head(work).rule
           db == IF TypeInfoPanics(data_types, rule) THEN database
                 ELSE CreateHeadTable(database, data_types, rule)
       IN IF TypeInfoPanics(data_types, rule) \/ CompilePanics(rule)
          THEN Panic
          ELSE \E src \in SelectSources(rule) :
                  IF \/ QueryFails(db, Compile(rule, src, FALSE))
                     \/ TargetFails(db, rule.head.predicate, rule)
                  THEN Panic
                  ELSE /\ database' = init_base(db, rule, src)
                       /\ work' = Tail(work)
                       /\ UNCHANGED <<pc, program, disk, ctx, data_types, previous,
                                      queue, output, run, saved>>

(***************************************************************************)
(* Runtime::semi_naive_evaluate and Runtime::iteration.                    *)
(***************************************************************************)
\* CREATE TABLE delta_p AS SELECT * FROM p;
\* CREATE TABLE temp_p AS SELECT * FROM p WHERE 1 = 0.
\* A table created AS SELECT carries no UNIQUE constraint.
CreateDeltaTemp(db, p) ==
    (DeltaName(p) :> Table(db[p].types, FALSE, db[p].rows))
    @@ (TempName(p) :> Table(db[p].types, FALSE, EmptyBag))
    @@ db

SemiNaiveStart ==
    /\ pc = "rules"
    /\ work # << >>
    /\ ~Head(work).base
    /\ LET p == Head(work).rule.head.predicate
       IN IF \/ p \notin DOMAIN database
             \/ DeltaName(p) \in DOMAIN database
             \/ TempName(p) \in DOMAIN database
          THEN Panic
          ELSE /\ database' = CreateDeltaTemp(database, p)
               /\ pc' = "loop"
               /\ UNCHANGED <<program, disk, ctx, data_types, previous, queue,
                              work, output, run, saved>>

\* the rows of a bag whose tuple is outside S, with their multiplicities
BagMinusSet(B, S) == [t \in BagToSet(B) \ S |-> B[t]]

\* delta := temp, the rows already in the original are kept
UpdateDeltaAll(db, p) ==
    [db EXCEPT ![DeltaName(p)] =
        InsertOrIgnore([@ EXCEPT !.rows = EmptyBag], db[TempName(p)].rows)]

\* delta := temp - original (LEFT JOIN p ... WHERE p.column_i IS NULL)
UpdateDelta(db, p) ==
    [db EXCEPT ![DeltaName(p)] =
        InsertOrIgnore([@ EXCEPT !.rows = EmptyBag],
                       BagMinusSet(db[TempName(p)].rows, Rel(db, p)))]

\* original := delta, the rows held before are lost
UpdateOriginalReplace(db, p) ==
    [db EXCEPT ![p] = [@ EXCEPT !.rows = SetToBag(Rel(db, DeltaName(p)))]]

\* original := original + delta
UpdateOriginal(db, p) ==
    [db EXCEPT ![p] = InsertOrIgnore(@, db[DeltaName(p)].rows)]

\* INSERT OR IGNORE INTO temp_p SELECT ... with p rewritten to delta_p
InsertTemp(db, rule, src) ==
    [db EXCEPT ![TempName(rule.head.predicate)] =
        InsertOrIgnore(@, QueryRows(db, Compile(rule, src, TRUE)))]

\* Runtime::iteration
iteration(db, rule, src) ==
    UpdateOriginal(UpdateDelta(InsertTemp(db, rule, src), rule.head.predicate),
                   rule.head.predicate)

\* the count taken from temp_p instead of delta_p
DeltaCountOfTemp(db, p) == BagCardinality(db[TempName(p)].rows)

\* SELECT COUNT(*) FROM delta_p
DeltaCount(db, p) == BagCardinality(db[DeltaName(p)].rows)

\* one turn of the while loop of semi_naive_evaluate
Iteration ==
    /\ pc = "loop"
    /\ LET rule == Head(work).rule
       IN IF CompilePanics(rule)
          THEN Panic
          ELSE \E src \in SelectSources(rule) :
                  IF \/ QueryFails(database, Compile(rule, src, TRUE))
                     \/ TargetFails(database, TempName(rule.head.predicate), rule)
                  THEN Panic
                  ELSE /\ database' = iteration(database, rule, src)
                       /\ pc' = IF DeltaCount(iteration(database, rule, src),
                                              rule.head.predicate) = 0
                                THEN "fixpoint" ELSE "loop"
                       /\ UNCHANGED <<program, disk, ctx, data_types, previous,
                                      queue, work, output, run, saved>>

\* DROP TABLE delta_p; DROP TABLE temp_p
DropDeltaTemp(db, p) ==
    [name \in DOMAIN db \ {DeltaName(p), TempName(p)} |-> db[name]]

SemiNaiveEnd ==
    /\ pc = "fixpoint"
    /\ database' = DropDeltaTemp(database, Head(work).rule.head.predicate)
    /\ work' = Tail(work)
    /\ pc' = "rules"
    /\ UNCHANGED <<program, disk, ctx, data_types, previous, queue, output,
                   run, saved>>

\* apply_rules returns: previous.push(name)
EndApply ==
    /\ pc = "rules"
    /\ work = << >>
    /\ previous' = previous \cup {Head(queue)}
    /\ queue' = Tail(queue)
    /\ pc' = "eval"
    /\ UNCHANGED <<program, disk, ctx, data_types, database, work, output,
                   run, saved>>

(***************************************************************************)
(* Runtime::write_queries and the write-back.                              *)
(***************************************************************************)
\* the WHERE of a query: the constants of the head, and every later
\* position of a head variable compared with column_0
QuerySelects(types, rule, row) ==
    /\ \A i \in 1..Len(rule.head.terms) :
          IsConstant(rule.head.terms[i]) =>
              SqlMatchesConstant(types[i], row[i], rule.head.terms[i])
    /\ \A v \in HeadVarNames(rule) :
          \A k \in 2..Len(head_dict(rule)[v]) :
              SqlEquals(row[1], types[1],
                        row[head_dict(rule)[v][k]], types[head_dict(rule)[v][k]])

QueryResult(db, rule) ==
    {row \in Rel(db, rule.head.predicate) :
        QuerySelects(db[rule.head.predicate].types, rule, row)}

\* row.get::<_, String>(i) succeeds on a TEXT value only
IsText(value) == value.t = "text"

QueryPanics(db, rule) ==
    \/ rule.head.predicate \notin DOMAIN db
    \/ Len(rule.head.terms) > db[rule.head.predicate].arity
    \/ \E row \in QueryResult(db, rule) :
          \E i \in 1..Len(rule.head.terms) : ~IsText(row[i])

WriteQueries ==
    /\ pc = "eval"
    /\ queue = << >>
    /\ IF \E name \in DOMAIN ctx.queries : QueryPanics(database, ctx.queries[name])
       THEN Panic
       ELSE /\ output' = [name \in DOMAIN ctx.queries |->
                             QueryResult(database, ctx.queries[name])]
            /\ pc' = "backup"
            /\ UNCHANGED <<program, disk, ctx, data_types, database, previous,
                           queue, work, run, saved>>

\* "write whole database to disk": Connection::open(..)? and the Backup
\* answer Ok or Err as the backend decides (written); a backup that fails
\* leaves the destination as it was
WriteBack ==
    /\ pc = "backup"
    /\ \E written \in BOOLEAN :
          IF written
          THEN /\ disk' = database
               /\ pc' = "done"
               /\ UNCHANGED <<program, ctx, data_types, database, previous, queue,
                              work, output, run, saved>>
          ELSE ReturnErr

(***************************************************************************)
(* engine::run and main: the exit status of the process.                   *)
(***************************************************************************)
\* the process has ended: eval returned Ok, a panic unwound, or an Err came
\* back to run
Terminated == pc \in {"done", "panic", "error"}

\* run prints an Err of Runtime::new and drops the result of eval; main
\* returns normally after run.  A panic ends the process with status 101.
ExitCode == IF pc = "panic" THEN 101 ELSE 0

(***************************************************************************)
(* A second run of the engine, on the store the first run started from,    *)
(* with the source reordered.                                              *)
(***************************************************************************)
Swap(s, i, j) ==
    [k \in 1..Len(s) |-> IF k = i THEN s[j] ELSE IF k = j THEN s[i] ELSE s[k]]

\* two rules of one head predicate exchanged
RuleOrderVariants(prog) ==
    {Swap(prog, i, j) : i, j \in 1..Len(prog)} \cap
    {Swap(prog, ij[1], ij[2]) :
        ij \in {x \in (1..Len(prog)) \X (1..Len(prog)) :
                  /\ x[1] < x[2]
                  /\ prog[x[1]].io = "silent"
                  /\ prog[x[2]].io = "silent"
                  /\ prog[x[1]].head.predicate = prog[x[2]].head.predicate}}

\* two body clauses of one rule exchanged
BodyOrderVariants(prog) ==
    UNION {{[prog EXCEPT ![r].body = Swap(@, i, j)] :
               i, j \in {x \in 1..Len(prog[r].body) : TRUE}} \
           {prog} : r \in 1..Len(prog)}

Restart(variant, kind) ==
    /\ pc = "done"
    /\ run.n = 1
    /\ program' = variant
    /\ run' = [n |-> 2, kind |-> kind]
    /\ saved' = [saved EXCEPT !.database = database]
    /\ disk' = saved.disk
    /\ pc' = "parse"
    /\ ctx' = NoContext
    /\ data_types' = << >>
    /\ database' = << >>
    /\ previous' = {}
    /\ queue' = << >>
    /\ work' = << >>
    /\ output' = << >>

RunRuleOrder == \E variant \in RuleOrderVariants(program) : Restart(variant, "rule_order")

RunBodyOrder == \E variant \in BodyOrderVariants(program) : Restart(variant, "body_order")

\* the engine run again, on the store the first run wrote back
RunAgain ==
    /\ pc = "done"
    /\ run.n = 1
    /\ run' = [n |-> 2, kind |-> "again"]
    /\ saved' = [disk |-> disk, database |-> database]
    /\ pc' = "parse"
    /\ ctx' = NoContext
    /\ data_types' = << >>
    /\ database' = << >>
    /\ previous' = {}
    /\ queue' = << >>
    /\ work' = << >>
    /\ output' = << >>
    /\ UNCHANGED <<program, disk>>

Next ==
    \/ ContextNew
    \/ RuntimeNew
    \/ ApplyRules
    \/ InitBase
    \/ SemiNaiveStart
    \/ Iteration
    \/ SemiNaiveEnd
    \/ EndApply
    \/ WriteQueries
    \/ WriteBack
    \/ RunRuleOrder
    \/ RunBodyOrder
    \/ RunAgain

Spec == Init /\ [][Next]_vars

TypeOK == pc \in {"parse", "new", "eval", "rules", "loop", "fixpoint", "backup",
                  "done", "panic", "error"}

(***************************************************************************)
(* The Datalog reading of a rule, against which the run is judged.         *)
(***************************************************************************)
RuleVarNames(rule) == HeadVarNames(rule) \cup BodyVarNames(rule)

\* some row of the relation agrees with the atom under the assignment
Matches(atom, asg, rows) ==
    \E row \in rows :
        /\ Len(row) = Len(atom.terms)
        /\ \A i \in 1..Len(atom.terms) :
              CASE atom.terms[i].k = "var" -> row[i] = asg[atom.terms[i].n]
                [] atom.terms[i].k = "free" -> TRUE
                [] OTHER -> MatchesConstant(row[i], atom.terms[i])

\* every positive atom has a matching row and no negated atom has one
BodyHolds(rule, asg, db) ==
    \A c \in BodyAtoms(rule) :
        IF c.negation
        THEN ~Matches(c, asg, Rel(db, c.predicate))
        ELSE Matches(c, asg, Rel(db, c.predicate))

HeadTuple(rule, asg) ==
    [i \in 1..Len(rule.head.terms) |->
        IF rule.head.terms[i].k = "var" THEN asg[rule.head.terms[i].n]
        ELSE LiteralValue(rule.head.terms[i])]

\* the head instances of the rule under the assignments that satisfy it
Derives(rule, db) ==
    {HeadTuple(rule, asg) :
        asg \in {a \in [RuleVarNames(rule) -> Vals] : BodyHolds(rule, a, db)}}

IdbRules(prog) == Range(RulesWith(prog, "silent"))

\* one round of naive evaluation of all the rules
NaiveStep(prog, db) ==
    [name \in DOMAIN db |->
        [db[name] EXCEPT !.rows = SetToBag(
            Rel(db, name) \cup
            UNION {Derives(r, db) : r \in {x \in IdbRules(prog) : x.head.predicate = name}})]]

RECURSIVE NaiveFixpoint(_, _)
\* the least fixpoint of a program without negation, by naive evaluation
NaiveFixpoint(prog, db) ==
    IF NaiveStep(prog, db) = db THEN db ELSE NaiveFixpoint(prog, NaiveStep(prog, db))

\* the store holding the edb tables of the run and an empty table per idb
SeedStore(prog, db) ==
    [name \in HeadNames(prog, "read") \cup HeadNames(prog, "silent") |->
        IF name \in HeadNames(prog, "read") THEN db[name]
        ELSE Table(db[name].types, TRUE, EmptyBag)]

RECURSIVE TransitiveClosure(_)
TransitiveClosure(R) ==
    LET C == R \cup {p \in {<<e[1], f[2]>> : e \in R, f \in R} :
                        \E e \in R, f \in R : e[2] = f[1] /\ p = <<e[1], f[2]>>}
    IN IF C = R THEN R ELSE TransitiveClosure(C)

Finished == pc = "done"

Accepted == DOMAIN ctx.levels # {}

(***************************************************************************)
(* Properties.                                                             *)
(***************************************************************************)

\* C1: when eval has finished, no rule of any idb predicate derives, from
\* the final relations, a tuple that its head relation does not hold.
FixpointComplete ==
    Finished =>
        \A r \in IdbRules(program) :
            Derives(r, database) \subseteq Rel(database, r.head.predicate)

\* C2: when eval has finished, every tuple of every idb relation is a head
\* instance of some rule of that predicate under an assignment satisfying
\* every body atom against the final relations.
FixpointSound ==
    Finished =>
        \A name \in DOMAIN ctx.idbs : \A t \in Rel(database, name) :
            \E i \in 1..Len(ctx.idbs[name]) : t \in Derives(ctx.idbs[name][i], database)

HasReach == "reach" \in HeadNames(program, "silent")

\* C3: for the reach program, the final relation reach is exactly the
\* transitive closure of edge.
ReachIsClosure ==
    (Finished /\ HasReach) =>
        Rel(database, "reach") = TransitiveClosure(Rel(database, "edge"))

\* a finished run of the reach program over a cycle: reach holds a loop
\* (X,X) that edge does not
ReachClosedCycle ==
    /\ Finished /\ HasReach
    /\ \E t \in Rel(database, "reach") : t[1] = t[2] /\ t \notin Rel(database, "edge")

\* the tuples a relation of the given arity can hold: the universe induced
\* by the values of the edb
Universe(arity) == [1..arity -> Vals]

Accumulated == HeadNames(program, "read") \cup HeadNames(program, "silent")

\* C5: no step of a run removes a tuple from an accumulated relation.
Monotonic ==
    [][run' = run =>
        \A name \in Accumulated \cap DOMAIN database :
            /\ name \in DOMAIN database'
            /\ Rel(database, name) \subseteq Rel(database', name)]_vars

\* an iteration has run (temp_p holds rows) and has added rows that p did
\* not hold (delta_p holds rows)
IterationGrew ==
    /\ pc = "loop"
    /\ database[TempName(Head(work).rule.head.predicate)].rows # EmptyBag
    /\ database[DeltaName(Head(work).rule.head.predicate)].rows # EmptyBag

HasNegation(rule) == \E c \in BodyAtoms(rule) : c.negation

\* C6: a predicate defined by one rule with a negated atom receives a tuple
\* only under an assignment for which the negated predicate holds no
\* matching tuple.
NegationRespected ==
    Finished =>
        \A name \in DOMAIN ctx.idbs :
            (Len(ctx.idbs[name]) = 1 /\ HasNegation(ctx.idbs[name][1])) =>
                Rel(database, name) \subseteq Derives(ctx.idbs[name][1], database)

\* a negated body atom whose predicate shares a component with the head
NegationInComponent(prog) ==
    \E r \in IdbRules(prog) : \E c \in BodyAtoms(r) :
        c.negation /\ SameComponent(r.head.predicate, c.predicate, Dependencies(prog))

\* C7: Context::new succeeds only if every negated body atom lies on a
\* strictly lower level than the head of its rule; a program negating
\* inside a strongly connected component is rejected before evaluation.
StratificationRespected ==
    /\ Accepted =>
          \A r \in IdbRules(program) : \A c \in BodyAtoms(r) :
              c.negation => ctx.levels[c.predicate] < ctx.levels[r.head.predicate]
    /\ NegationInComponent(program) => (~Accepted /\ pc \in {"parse", "panic"})

\* Context::new has accepted a program that holds a negated atom
AcceptedWithNegation ==
    /\ Accepted
    /\ \E r \in IdbRules(program) : HasNegation(r)

\* the rule holds two or more body atoms over its own head predicate
NonLinear(rule) ==
    Cardinality({c \in 1..Len(rule.body) :
                    rule.body[c].kind = "atom" /\
                    rule.body[c].predicate = rule.head.predicate}) >= 2

\* C8: for a program with a non-linear rule, the final relations are the
\* least fixpoint that naive evaluation of the same rules computes.
NonLinearFixpoint ==
    (Finished /\ \E r \in IdbRules(program) : NonLinear(r)) =>
        \A name \in DOMAIN ctx.idbs :
            Rel(database, name) =
                Rel(NaiveFixpoint(program, SeedStore(program, database)), name)

\* C9: a run on the source with two rules of one head exchanged ends with
\* the same idb relations as the run on the original source.
RuleOrderIndependent ==
    (Finished /\ run.kind = "rule_order") =>
        \A name \in DOMAIN ctx.idbs :
            Rel(database, name) = Rel(saved.database, name)

\* C10: a run on the source with two body clauses of one rule exchanged
\* ends with the same idb relations as the run on the original source.
BodyOrderIndependent ==
    (Finished /\ run.kind = "body_order") =>
        \A name \in DOMAIN ctx.idbs :
            Rel(database, name) = Rel(saved.database, name)

\* C11: a second run of the engine, on the store a first successful run
\* wrote back, does not panic and ends with every relation holding exactly
\* the tuples the first run left in it.
Idempotent ==
    run.kind = "again" =>
        /\ pc # "panic"
        /\ Finished =>
              \A name \in DOMAIN saved.database :
                  /\ name \in DOMAIN database
                  /\ Rel(database, name) = Rel(saved.database, name)

\* type_inference has completed: Runtime::new has built the Runtime
Typed == DOMAIN data_types # {}

\* the number of terms of the head of a predicate
HeadArity(context, name) ==
    IF name \in DOMAIN context.edbs THEN Len(context.edbs[name].head.terms)
    ELSE Len(context.idbs[name][1].head.terms)

\* C12: once type_inference has completed, data_types holds an entry for
\* every edb and every idb predicate, as long as the head of the predicate.
TypesComplete ==
    Typed =>
        \A name \in DOMAIN ctx.edbs \cup DOMAIN ctx.idbs :
            /\ name \in DOMAIN data_types
            /\ Len(data_types[name]) = HeadArity(ctx, name)

\* the storage class of a value is the one of the inferred type
HasType(value, type) ==
    IF IsNumericType(type) THEN value.t = "int" ELSE value.t = "text"

\* C13: in every state of eval, every tuple of a derived relation holds at
\* each column a value of the type inferred for that position.
TypeSound ==
    \A name \in DOMAIN ctx.idbs \cap DOMAIN database \cap DOMAIN data_types :
        \A row \in Rel(database, name) :
            \A i \in 1..Len(row) : HasType(row[i], data_types[name][i])

\* two @input rules of the source carry one head name
HasDuplicateInput(prog) ==
    \E i, j \in 1..Len(prog) :
        /\ i < j
        /\ prog[i].io = "read" /\ prog[j].io = "read"
        /\ prog[i].head.predicate = prog[j].head.predicate

\* C14: a program with two @input rules of one name is rejected by
\* Context::new: no Context is produced and the run ends there.
DuplicateInputRejected ==
    HasDuplicateInput(program) => (~Accepted /\ pc \in {"parse", "panic"})

\* C15: the process ends with status 0 only when evaluation and write-back
\* have succeeded; every run that ends on a fatal error ends nonzero.
ExitStatusTellsFailure ==
    (Terminated /\ ExitCode = 0) => pc = "done"

\* C16: the on-disk store is written only at the end of eval, after the
\* queue of idb predicates is exhausted and the queries have been run; a
\* run that ends before that leaves the store as it found it.
NoPartialWriteBack ==
    /\ pc # "done" => disk = saved.disk
    /\ pc = "done" =>
          /\ queue = << >> /\ work = << >>
          /\ DOMAIN output = DOMAIN ctx.queries

\* a run has panicked after it derived rows into a table the disk lacks
PanickedAfterDeriving ==
    /\ pc = "panic"
    /\ \E name \in DOMAIN database \ DOMAIN disk : database[name].rows # EmptyBag

\* the selection anchored at the first position of every head variable
AnchoredSelects(rule, row) ==
    /\ \A i \in 1..Len(rule.head.terms) :
          IsConstant(rule.head.terms[i]) => MatchesConstant(row[i], rule.head.terms[i])
    /\ \A v \in HeadVarNames(rule) :
          \A k \in 2..Len(head_dict(rule)[v]) :
              row[head_dict(rule)[v][1]] = row[head_dict(rule)[v][k]]

\* C17: the rows a query returns are exactly the rows of its relation that
\* match the constants of the head and carry equal values at all the
\* positions of each head variable.
QuerySelection ==
    pc \in {"backup", "done"} =>
        \A name \in DOMAIN ctx.queries :
            output[name] =
                {row \in Rel(database, name) : AnchoredSelects(ctx.queries[name], row)}

\* a rule of the source holds a constant in its head
HasConstantHead(prog) ==
    \E r \in IdbRules(prog) : \E t \in Range(r.head.terms) : IsConstant(t)

\* C18: a program with a constant in the head of an idb rule is analysed
\* and compiled without a panic, and every tuple of the head relation
\* carries the literal at the position of the constant.
ConstantHeadsCompiled ==
    HasConstantHead(program) =>
        /\ pc # "panic"
        /\ \A r \in IdbRules(program) :
              r.head.predicate \in DOMAIN database =>
                  \A row \in Rel(database, r.head.predicate) :
                      \A i \in 1..Len(r.head.terms) :
                          IsConstant(r.head.terms[i]) =>
                              row[i] = LiteralValue(r.head.terms[i])

\* init_base has run for the base-case rule at the head of the work list
InitBaseDone ==
    /\ pc = "rules" /\ work # << >> /\ Head(work).base
    /\ pc' = "rules" /\ work' = Tail(work)

\* the rows of a relation, none when the table does not exist yet
RowsBefore(db, name) == IF name \in DOMAIN db THEN Rel(db, name) ELSE {}

\* C19: init_base adds to the head relation of a base-case rule with
\* positive atoms exactly the head instances of the assignments that
\* satisfy every body atom together.
BaseRuleCompiled ==
    [][(InitBaseDone /\ ~HasNegation(Head(work).rule)) =>
          Rel(database', Head(work).rule.head.predicate) =
              RowsBefore(database, Head(work).rule.head.predicate)
              \cup Derives(Head(work).rule, database)]_vars

\* the recursive rules of a predicate, as apply_rules tells them apart
RecursiveRules(context, prev, name) ==
    {r \in Range(context.idbs[name]) : ~is_base_case(r, prev)}

\* C20: when the semi-naive loop of a predicate ends, the predicate is
\* closed under every recursive rule of it: each of them has been run
\* in the loop on the tuples the others derived.  (Programs with linear
\* rules.)
LoopRunsEveryRule ==
    (pc = "fixpoint" /\ ~\E r \in IdbRules(program) : NonLinear(r)) =>
        \A r \in RecursiveRules(ctx, previous, Head(work).rule.head.predicate) :
            Derives(r, database) \subseteq Rel(database, r.head.predicate)

\* the tables the statement of a rule reads: the relation of each body atom
TablesRead(rule, rewrite) ==
    {RelationOf(rule, c, rewrite) :
        c \in {d \in 1..Len(rule.body) : rule.body[d].kind = "atom"}}

\* C21: whenever a rule is about to be executed, every table its statement
\* reads exists in the working store: the body predicates are materialized,
\* and inside the loop of p the tables p and delta_p exist.
TablesAvailable ==
    /\ (pc = "rules" /\ work # << >> /\ Head(work).base) =>
          TablesRead(Head(work).rule, FALSE) \subseteq DOMAIN database
    /\ pc = "loop" =>
          /\ TablesRead(Head(work).rule, TRUE) \subseteq DOMAIN database
          /\ Head(work).rule.head.predicate \in DOMAIN database
          /\ DeltaName(Head(work).rule.head.predicate) \in DOMAIN database

\* C22: the table of an idb predicate exists before any of its recursive
\* rules is run, and after a successful eval every idb predicate has a
\* table.
TableCreatedFirst ==
    /\ (pc = "rules" /\ work # << >> /\ ~Head(work).base) =>
          Head(work).rule.head.predicate \in DOMAIN database
    /\ Finished => DOMAIN ctx.idbs \subseteq DOMAIN database

\* C23: after the update step of an iteration delta_p holds exactly the
\* tuples of temp_p that were not in p before the step, every tuple of
\* delta_p is in p, and the loop is left after the iteration if and only if
\* delta_p is empty.
DeltaUpdate ==
    [][(pc = "loop" /\ pc' \in {"loop", "fixpoint"}) =>
         LET p == Head(work).rule.head.predicate
         IN /\ Rel(database', DeltaName(p))
                  = Rel(database', TempName(p)) \ Rel(database, p)
            /\ Rel(database', DeltaName(p)) \subseteq Rel(database', p)
            /\ pc' = "fixpoint" <=> Rel(database', DeltaName(p)) = {}]_vars

\* an update step has kept some tuples of temp_p out of delta_p and let
\* others in, and the loop goes on
DeltaFiltered ==
    /\ pc = "loop"
    /\ LET p == Head(work).rule.head.predicate
       IN /\ Rel(database, DeltaName(p)) # {}
          /\ Rel(database, TempName(p)) \ Rel(database, DeltaName(p)) # {}

\* C24: at the end of an iteration temp_p holds exactly the output of the
\* rule's statement in that iteration, and no tuple that only an earlier
\* iteration produced.
TempIsIterationOutput ==
    [][(pc = "loop" /\ pc' \in {"loop", "fixpoint"}) =>
         LET rule == Head(work).rule
         IN \E src \in SelectSources(rule) :
               Rel(database', TempName(rule.head.predicate))
                  = BagToSet(Stored(database[TempName(rule.head.predicate)].types,
                                    QueryRows(database,
                                              Compile(rule, src, TRUE))))]_vars

\* the tables a compiled rule inserts into, and the delta tables
InsertionTargets ==
    {name \in DOMAIN database :
        \E p \in DOMAIN ctx.idbs : name \in {p, DeltaName(p), TempName(p)}}

\* C25: the head table of an idb predicate, temp_p and delta_p enforce
\* uniqueness over all columns: none of them holds a tuple twice.
NoDuplicateRows ==
    \A name \in InsertionTargets :
        \A t \in BagToSet(database[name].rows) :
            CopiesIn(t, database[name].rows) = 1

\* the names of the delta and temp tables of the program's predicates
LoopTableNames ==
    {DeltaName(p) : p \in HeadNames(program, "silent")}
        \cup {TempName(p) : p \in HeadNames(program, "silent")}

\* C26: delta_p and temp_p exist only while the loop of p runs, whether it
\* ends by fixpoint or by failure: outside the loop the working store holds
\* neither, and the store on disk never does.
LoopTablesDropped ==
    /\ pc \notin {"loop", "fixpoint"} =>
          DOMAIN database \cap LoopTableNames = {}
    /\ DOMAIN disk \cap LoopTableNames = {}

\* the relation of the FROM clause is the projection source of head
\* position 0, and no JOIN list is built for it
AnchoredAtFirst(rule, rewrite) ==
    \A src \in SelectSources(rule) :
        LET q == Compile(rule, src, rewrite)
            anchor == RelationOf(rule, src[1][1], rewrite)
        IN q.from = anchor /\ anchor \notin q.joins

\* C27: in init_base and in iteration the relation in the FROM clause of the
\* compiled query is the body clause that is the projection source of head
\* position 0, and no JOIN list is built for that clause.
AnchorSelection ==
    /\ (pc = "rules" /\ work # << >> /\ Head(work).base
            /\ ~CompilePanics(Head(work).rule)) =>
          AnchoredAtFirst(Head(work).rule, FALSE)
    /\ (pc = "loop" /\ ~CompilePanics(Head(work).rule)) =>
          AnchoredAtFirst(Head(work).rule, TRUE)

\* C28: the stratum assigns every edb and every idb predicate exactly one
\* level, levels[name] = i exactly when name is in strata[i], and get_level
\* succeeds for the head of every idb rule.
StratumTotal ==
    pc # "parse" =>
        \A levels \in StratumNew(HeadNames(program, "read"), Dependencies(program)) :
            \A name \in HeadNames(program, "read") \cup HeadNames(program, "silent") :
                /\ ~LevelMissing(levels, name)
                /\ \A i \in 1..Len(Strata(levels)) :
                      name \in Strata(levels)[i] <=> levels[name] = i - 1

\* the rule with its arithmetic clauses removed
WithoutArith(rule) ==
    [rule EXCEPT !.body = SelectSeq(rule.body, LAMBDA c : c.kind = "atom")]

\* the statements iteration can build for a rule
Statements(rule) == {Compile(rule, src, TRUE) : src \in SelectSources(rule)}

\* C29: the arithmetic clauses of a rule contribute nothing to its compiled
\* query: the select, join and where parts are those of the rule with its
\* arithmetic clauses removed.
ArithIgnored ==
    (pc = "loop" /\ ~CompilePanics(Head(work).rule)) =>
        Statements(Head(work).rule) = Statements(WithoutArith(Head(work).rule))

\* the positions of the @output rules of a name in the source
QueryPositions(prog, name) ==
    {i \in 1..Len(prog) : prog[i].io = "write" /\ prog[i].head.predicate = name}

\* the @output rule of a name that comes last in the source
LastQuery(prog, name) ==
    prog[CHOOSE i \in QueryPositions(prog, name) :
            \A j \in QueryPositions(prog, name) : j <= i]

RepeatedQuery(prog) ==
    \E name \in HeadNames(prog, "write") : Cardinality(QueryPositions(prog, name)) > 1

====
